---- MODULE Spec2Model ----
(***************************************************************************)
(* Model of qr.py: a reservation backend (spots, slots, tickets) on top of *)
(* a peewee SqliteDatabase.  Every endpoint is wrapped in db.atomic(), so   *)
(* each call is one deferred SQLite transaction on the calling thread's own *)
(* connection.  The store is modelled as the committed tables plus, per     *)
(* thread, the file lock it holds and the rows it has written but not yet   *)
(* committed.                                                               *)
(*                                                                          *)
(* SQLite (rollback journal, the default of SqliteDatabase) locks the whole *)
(* file: a SELECT takes a SHARED lock that is kept until the transaction    *)
(* ends, the first write takes the RESERVED lock, and COMMIT needs the      *)
(* EXCLUSIVE lock, which waits for every other lock to be released.  A      *)
(* connection that holds SHARED and asks for RESERVED while another holds   *)
(* it gets "database is locked" at once; a connection that holds no lock    *)
(* waits.  A step of a thread is therefore a run of statements between two  *)
(* lock requests: the SELECTs, the writes, the COMMIT.  No other thread can *)
(* commit between the statements of one such run.                           *)
(***************************************************************************)
EXTENDS Integers, Sequences, FiniteSets, TLC

\* ------------------------------------------------------------------ bounds
MaxId == 2            \* make_id / uuid4 draw ids from 1..MaxId
MaxTime == 2          \* the wall clock runs from 1 to MaxTime
MaxSlots == 2         \* a spot view carries at most MaxSlots slot views
MaxPresentments == 2  \* redeem_ticket is not called on a ticket past this
NumThreads == 2       \* worker threads serving requests concurrently

NULL == -1            \* SQL NULL / Python None in an integer column
NoNote == "None"      \* Python None in a text column

Ids == 1..MaxId
Names == {"a", "b"}
Notes == {NoNote, "n"}
Threads == 1..NumThreads

\* Client-facing slot views (CSlot) offered to make_spot.
CSlots ==
  { [start |-> 2, end |-> 3,    capacity |-> 1,    note |-> NoNote],
    [start |-> 1, end |-> 0,    capacity |-> 0,    note |-> "n"],
    [start |-> 2, end |-> NULL, capacity |-> NULL, note |-> NoNote] }

SlotSeqs == UNION { [1..n -> CSlots] : n \in 0..MaxSlots }

\* Client-facing spot views (CSpot).
CSpots == [name : Names, note : {NoNote}, slots : SlotSeqs]

VARIABLES
  spots,      \* committed PSpot rows
  slots,      \* committed PSlot rows
  tickets,    \* committed PTicket rows
  clock,      \* int(time.time())
  pc,         \* per thread: the statement it executes next
  call,       \* per thread: the endpoint it serves and its arguments
  loc,        \* per thread: local variables of the endpoint
  lock,       \* per thread: SQLite file lock held by its connection
  wset,       \* per thread: rows written inside the open transaction
  ret,        \* per thread: outcome of its last call
  redeemed    \* per ticket id: counts returned by committed redemptions

vars == <<spots, slots, tickets, clock, pc, call, loc, lock, wset, ret, redeemed>>

\* ------------------------------------------------------------- exceptions
SpotNameError(name, n) ==
  [exc |-> "Exception", msg |-> "spot name associated with IDs",
   name |-> name, count |-> n]
NoTicketError(ticket_id) ==
  [exc |-> "Exception", msg |-> "No ticket issuance found",
   ticket_id |-> ticket_id]
IntegrityError == [exc |-> "IntegrityError"]
DatabaseLocked == [exc |-> "OperationalError", msg |-> "database is locked"]

\* ----------------------------------------------------------- local state
NoRow == [id |-> NULL]
NoLoc == [spot_id |-> NULL, row |-> NoRow, ticket_id |-> NULL, i |-> 0,
          out |-> NoRow, cspot |-> NoRow]
NoWrites == [spots |-> {}, slots |-> {}, tickets |-> {},
             uslots |-> {}, utickets |-> {}]
Idle == [op |-> "idle"]

Init ==
  /\ spots = {}
  /\ slots = {}
  /\ tickets = {}
  /\ clock = 1
  /\ pc = [p \in Threads |-> "idle"]
  /\ call = [p \in Threads |-> Idle]
  /\ loc = [p \in Threads |-> NoLoc]
  /\ lock = [p \in Threads |-> "NONE"]
  /\ wset = [p \in Threads |-> NoWrites]
  /\ ret = [p \in Threads |-> [kind |-> "idle"]]
  /\ redeemed = [t \in Ids |-> <<>>]

\* ------------------------------------------------------------ SQLite locks
\* A store without write locks: no request for a lock is ever refused.
ConflictsNone(p, want) == {}

\* A store whose COMMIT does not wait for the readers to finish.
ConflictsReservedOnly(p, want) ==
  { q \in Threads \ {p} : want = "RESERVED" /\ lock[q] = "RESERVED" }

\* Threads whose lock is incompatible with the lock p asks for.  A RESERVED
\* lock excludes other RESERVED locks; the EXCLUSIVE lock of a commit that
\* writes excludes every other lock.
Conflicts(p, want) ==
  { q \in Threads \ {p} :
      \/ want = "RESERVED" /\ lock[q] = "RESERVED"
      \/ want = "EXCLUSIVE" /\ lock[q] # "NONE" }

\* db.atomic() leaving the function through an exception: ROLLBACK.
Raise(p, err) ==
  /\ pc' = [pc EXCEPT ![p] = "idle"]
  /\ ret' = [ret EXCEPT ![p] = [kind |-> "raise", err |-> err]]
  /\ lock' = [lock EXCEPT ![p] = "NONE"]
  /\ wset' = [wset EXCEPT ![p] = NoWrites]
  /\ loc' = [loc EXCEPT ![p] = NoLoc]
  /\ UNCHANGED <<spots, slots, tickets, redeemed>>

\* An UPDATE whose WHERE clause matches no row: the table stays as it is.
SaveSlotsNoMatch(table, updated) == table

\* PSlot after the UPDATEs of save(): a saved row replaces the row of its id.
SaveSlots(table, updated) ==
  { r \in table : \A u \in updated : u.id # r.id }
    \cup { u \in updated : \E r \in table : r.id = u.id }

\* The UPDATE without its WHERE clause: every row takes the saved presentments.
SaveTicketsEveryRow(table, updated) ==
  IF updated = {} THEN table
  ELSE { [r EXCEPT !.presentments = u.presentments] :
           r \in table, u \in updated }

\* PTicket after the UPDATEs of save(): a saved row replaces the row of its
\* ticket_id.
SaveTickets(table, updated) ==
  { r \in table : \A u \in updated : u.ticket_id # r.ticket_id }
    \cup { u \in updated : \E r \in table : r.ticket_id = u.ticket_id }

\* db.atomic() leaving the function normally: COMMIT, then the return value.
Commit(p, result) ==
  /\ spots' = spots \cup wset[p].spots
  /\ slots' = SaveSlots(slots, wset[p].uslots) \cup wset[p].slots
  /\ tickets' = SaveTickets(tickets, wset[p].utickets) \cup wset[p].tickets
  /\ pc' = [pc EXCEPT ![p] = "idle"]
  /\ ret' = [ret EXCEPT ![p] = result]
  /\ lock' = [lock EXCEPT ![p] = "NONE"]
  /\ wset' = [wset EXCEPT ![p] = NoWrites]
  /\ loc' = [loc EXCEPT ![p] = NoLoc]

\* The wall clock advances.
Tick ==
  /\ clock < MaxTime
  /\ clock' = clock + 1
  /\ UNCHANGED <<spots, slots, tickets, pc, call, loc, lock, wset, ret, redeemed>>

\* ------------------------------------------------------------ get_available
Truthy(n) == n # NULL /\ n # 0      \* Python truth value of an Optional[int]

DefaultCapacity == 8192             \* CSlot.capacity default, 1 << 13

\* The filter with a strict comparison, reservations < capacity.
EligibleBelowCapacity(spot_id, now) ==
  { r \in slots : /\ r.reservations < r.capacity
                  /\ r.spot_id = spot_id
                  /\ r.start >= now }

\* The filter without the comparison of reservations with capacity.
EligibleAnyLoad(spot_id, now) ==
  { r \in slots : r.spot_id = spot_id /\ r.start >= now }

\* The filter without the comparison of start with now.
EligibleAnyStart(spot_id, now) ==
  { r \in slots : r.reservations <= r.capacity /\ r.spot_id = spot_id }

\* Rows selected by the WHERE clause of get_available.
Eligible(spot_id, now) ==
  { r \in slots : /\ r.reservations <= r.capacity
                  /\ r.spot_id = spot_id
                  /\ r.start >= now }

\* Every arrangement of the rows of S without repetition.
Arrangements(S) ==
  { f \in [1..Cardinality(S) -> S] :
      \A i, j \in 1..Cardinality(S) : i # j => f[i] # f[j] }

\* The query without its ORDER BY: the selected rows in any order.
get_available_unordered(spot_id, now) ==
  Arrangements({ r \in slots : /\ r.reservations <= r.capacity
                               /\ r.spot_id = spot_id
                               /\ r.start >= now })

\* The query with ORDER BY start DESC: the latest slot comes first.
get_available_descending(spot_id, now) ==
  { f \in Arrangements({ r \in slots : /\ r.reservations <= r.capacity
                                       /\ r.spot_id = spot_id
                                       /\ r.start >= now }) :
      \A i, j \in 1..Len(f) : i < j => f[i].start >= f[j].start }

\* The lists ORDER BY start may return: every arrangement of the selected
\* rows that ascends by start (rows with equal start come in either order).
get_available(spot_id, now) ==
  { f \in Arrangements(Eligible(spot_id, now)) :
      \A i, j \in 1..Len(f) : i < j => f[i].start <= f[j].start }

\* Rows selected by get_spot_id.
SpotsNamed(spot_name) == { s \in spots : s.name = spot_name }

\* get_spot_id that raises only for more than one match and answers None
\* when no row matches.
get_spot_id_lenient(spot_name, matches) ==
  IF Cardinality(matches) > 1
    THEN [kind |-> "raise",
          err |-> SpotNameError(spot_name, Cardinality(matches))]
    ELSE [kind |-> "return",
          id |-> IF matches = {} THEN NULL
                                 ELSE (CHOOSE s \in matches : TRUE).id]

\* get_spot_id on a list of matching rows: the id, or the exception raised.
get_spot_id(spot_name, matches) ==
  IF Cardinality(matches) # 1
    THEN [kind |-> "raise",
          err |-> SpotNameError(spot_name, Cardinality(matches))]
    ELSE [kind |-> "return", id |-> (CHOOSE s \in matches : TRUE).id]

\* The ticket row with the serial number taken after the increment.
PTicketRowSerialAfter(pslot, spot_id, ticket_id, note) ==
  [ticket_id |-> ticket_id, slot_id |-> pslot.id, spot_id |-> spot_id,
   presentments |-> 0, note |-> note,
   serial_number |-> pslot.reservations + 1]

\* The row PTicket.create inserts.
PTicketRow(pslot, spot_id, ticket_id, note) ==
  [ticket_id |-> ticket_id, slot_id |-> pslot.id, spot_id |-> spot_id,
   presentments |-> 0, note |-> note, serial_number |-> pslot.reservations]

\* The CTicket assembled by reserve_ticket.
MakeCTicket(pslot, spot_name, spot_id, ticket_id, note) ==
  [slot |-> [start |-> pslot.start,
             end |-> IF Truthy(pslot.end) THEN pslot.end ELSE NULL,
             capacity |-> DefaultCapacity,
             note |-> pslot.note],
   spot_name |-> spot_name, spot_id |-> spot_id,
   ticket_id |-> ticket_id, note |-> note]

\* The counter left as it was read: the increment forgotten.
IncrementReservationsForgotten(pslot) == pslot

\* pslot.reservations += 1
IncrementReservations(pslot) == [pslot EXCEPT !.reservations = @ + 1]

\* ----------------------------------------------------------- reserve_ticket
\* POST /reserve/{spot_name} on thread p: BEGIN, spot_id = get_spot_id(...),
\* available = get_available(spot_id); return None if it is empty, else
\* pslot = available[0].  The SELECTs take the SHARED lock.
ReserveRead(p, spot_name, note) ==
  /\ pc[p] = "idle"
  /\ call' = [call EXCEPT ![p] = [op |-> "reserve_ticket",
                                   spot_name |-> spot_name, note |-> note]]
  /\ LET r == get_spot_id(spot_name, SpotsNamed(spot_name))
     IN IF r.kind = "raise"
          THEN Raise(p, r.err)
          ELSE \E available \in get_available(r.id, clock) :
                 IF Len(available) = 0
                   THEN /\ Commit(p, [kind |-> "none"])
                        /\ UNCHANGED redeemed
                   ELSE /\ loc' = [loc EXCEPT ![p].spot_id = r.id,
                                              ![p].row = available[1]]
                        /\ lock' = [lock EXCEPT ![p] = "SHARED"]
                        /\ pc' = [pc EXCEPT ![p] = "create_ticket"]
                        /\ ret' = [ret EXCEPT ![p] = [kind |-> "pending"]]
                        /\ UNCHANGED <<spots, slots, tickets, wset, redeemed>>
  /\ UNCHANGED clock

\* A PTicket table without a primary key: no ticket_id is ever refused.
TicketIdFree(ticket_id) == FALSE

\* ticket_id is the primary key of PTicket: the INSERT of a stored id fails.
TicketIdTaken(ticket_id) == \E t \in tickets : t.ticket_id = ticket_id

\* ticket_id from uuid4; PTicket.create(...); the CTicket is assembled;
\* pslot.reservations += 1; pslot.save().  The INSERT needs the RESERVED lock
\* and is refused at once when another connection holds it; ticket_id is the
\* primary key of PTicket.  save() is an UPDATE of every column of the row
\* read earlier, WHERE id = pslot.id.
ReserveWrite(p) ==
  /\ pc[p] = "create_ticket"
  /\ \E ticket_id \in Ids :
       LET pslot == loc[p].row
       IN IF Conflicts(p, "RESERVED") # {}
            THEN Raise(p, DatabaseLocked)
          ELSE IF TicketIdTaken(ticket_id)
            THEN Raise(p, IntegrityError)
          ELSE /\ lock' = [lock EXCEPT ![p] = "RESERVED"]
               /\ wset' = [wset EXCEPT
                    ![p].tickets = @ \cup {PTicketRow(pslot, loc[p].spot_id,
                                             ticket_id, call[p].note)},
                    ![p].uslots = @ \cup {IncrementReservations(pslot)}]
               /\ loc' = [loc EXCEPT ![p].ticket_id = ticket_id,
                                     ![p].out = MakeCTicket(pslot,
                                        call[p].spot_name, loc[p].spot_id,
                                        ticket_id, call[p].note)]
               /\ pc' = [pc EXCEPT ![p] = "reserve_commit"]
               /\ UNCHANGED <<spots, slots, tickets, ret, redeemed>>
  /\ UNCHANGED <<clock, call>>

\* return cticket: COMMIT waits until no other connection holds a lock.
ReserveCommit(p) ==
  /\ pc[p] = "reserve_commit"
  /\ Conflicts(p, "EXCLUSIVE") = {}
  /\ Commit(p, [kind |-> "ticket", cticket |-> loc[p].out])
  /\ UNCHANGED <<clock, call, redeemed>>

\* ------------------------------------------------------------ redeem_ticket
\* The lookup by ticket_id alone.
TicketsMatchingIdOnly(spot_id, ticket_id) ==
  { t \in tickets : t.ticket_id = ticket_id }

\* Rows selected by redeem_ticket.
TicketsMatching(spot_id, ticket_id) ==
  { t \in tickets : t.ticket_id = ticket_id /\ t.spot_id = spot_id }

\* The redemption that returns the count after the increment.
PresentAfter(pticket) ==
  [presentments |-> pticket.presentments + 1,
   pticket |-> [pticket EXCEPT !.presentments = @ + 1]]

\* presentments = int(pticket.presentments); pticket.presentments += 1:
\* the value returned and the row saved.
Present(pticket) ==
  [presentments |-> pticket.presentments,
   pticket |-> [pticket EXCEPT !.presentments = @ + 1]]

\* POST /redeem/{spot_id}/{ticket_id} on thread p: BEGIN,
\* pticket = list(PTicket.select().where(...))[0]; an empty list raises
\* IndexError, which the bare except turns into the Exception.
RedeemSelect(p, spot_id, ticket_id) ==
  /\ pc[p] = "idle"
  /\ \A t \in tickets :
       t.ticket_id = ticket_id => t.presentments < MaxPresentments
  /\ call' = [call EXCEPT ![p] = [op |-> "redeem_ticket", spot_id |-> spot_id,
                                   ticket_id |-> ticket_id]]
  /\ LET rows == TicketsMatching(spot_id, ticket_id)
     IN IF rows = {}
          THEN Raise(p, NoTicketError(ticket_id))
          ELSE /\ \E pticket \in rows :
                    loc' = [loc EXCEPT ![p].row = pticket]
               /\ lock' = [lock EXCEPT ![p] = "SHARED"]
               /\ pc' = [pc EXCEPT ![p] = "save_ticket"]
               /\ ret' = [ret EXCEPT ![p] = [kind |-> "pending"]]
               /\ UNCHANGED <<spots, slots, tickets, wset, redeemed>>
  /\ UNCHANGED clock

\* presentments = int(pticket.presentments); pticket.presentments += 1;
\* pticket.save(): UPDATE of every column, WHERE ticket_id = pticket.ticket_id.
RedeemSave(p) ==
  /\ pc[p] = "save_ticket"
  /\ IF Conflicts(p, "RESERVED") # {}
       THEN Raise(p, DatabaseLocked)
       ELSE /\ lock' = [lock EXCEPT ![p] = "RESERVED"]
            /\ wset' = [wset EXCEPT ![p].utickets =
                          @ \cup {Present(loc[p].row).pticket}]
            /\ loc' = [loc EXCEPT ![p].i = Present(loc[p].row).presentments]
            /\ pc' = [pc EXCEPT ![p] = "redeem_commit"]
            /\ UNCHANGED <<spots, slots, tickets, ret, redeemed>>
  /\ UNCHANGED <<clock, call>>

\* return presentments
RedeemCommit(p) ==
  /\ pc[p] = "redeem_commit"
  /\ Conflicts(p, "EXCLUSIVE") = {}
  /\ Commit(p, [kind |-> "count", n |-> loc[p].i])
  /\ redeemed' = [redeemed EXCEPT ![call[p].ticket_id] = Append(@, loc[p].i)]
  /\ UNCHANGED <<clock, call>>

\* ---------------------------------------------------------------- make_spot
\* make_slot that stores the end as reserve_ticket reads it back: an end of
\* 0 becomes NULL.
make_slot_end_truthy(cslot, spot_id, id) ==
  [id |-> id, spot_id |-> spot_id, start |-> cslot.start,
   end |-> IF Truthy(cslot.end) THEN cslot.end ELSE NULL,
   capacity |-> cslot.capacity, note |-> cslot.note, reservations |-> 0]

\* The PSlot row make_slot inserts for a slot view.  cslot.end is a CUnixTime
\* object or None, and an object is true whatever seconds it holds.
make_slot(cslot, spot_id, id) ==
  [id |-> id, spot_id |-> spot_id, start |-> cslot.start,
   end |-> cslot.end, capacity |-> cslot.capacity, note |-> cslot.note,
   reservations |-> 0]

\* The index of the first slot view whose INSERT fails, 0 if none does: id is
\* the primary key of PSlot (it clashes with a stored row or with a row
\* inserted earlier by the same call) and capacity is NOT NULL.
FirstFailure(cspot, ids) ==
  LET bad == { i \in 1..Len(cspot.slots) :
                 \/ cspot.slots[i].capacity = NULL
                 \/ \E r \in slots : r.id = ids[i]
                 \/ \E j \in 1..(i - 1) : ids[j] = ids[i] }
  IN IF bad = {} THEN 0 ELSE CHOOSE i \in bad : \A j \in bad : i <= j

\* A store in autocommit mode: the rows inserted before the exception stay.
RollbackKeepsRows(p, written, err) ==
  /\ spots' = spots \cup written.spots
  /\ slots' = slots \cup written.slots
  /\ tickets' = tickets \cup written.tickets
  /\ pc' = [pc EXCEPT ![p] = "idle"]
  /\ ret' = [ret EXCEPT ![p] = [kind |-> "raise", err |-> err]]
  /\ lock' = [lock EXCEPT ![p] = "NONE"]
  /\ wset' = [wset EXCEPT ![p] = NoWrites]
  /\ loc' = [loc EXCEPT ![p] = NoLoc]
  /\ UNCHANGED redeemed

\* An exception leaves the function after the rows `written` were inserted
\* inside the transaction: db.atomic() rolls back and none of them is kept.
Rollback(p, written, err) ==
  /\ pc' = [pc EXCEPT ![p] = "idle"]
  /\ ret' = [ret EXCEPT ![p] = [kind |-> "raise", err |-> err]]
  /\ lock' = [lock EXCEPT ![p] = "NONE"]
  /\ wset' = [wset EXCEPT ![p] = NoWrites]
  /\ loc' = [loc EXCEPT ![p] = NoLoc]
  /\ UNCHANGED <<spots, slots, tickets, redeemed>>

\* POST /make_spot on thread p: BEGIN, spot_id = make_id(cspot),
\* PSpot.create(...), then make_slot for every slot view in order.  The first
\* INSERT is the first statement of the transaction, so it waits for the
\* RESERVED lock.  name is the primary key of PSpot and id is unique.  Any
\* IntegrityError leaves the function and rolls the transaction back.
MakeSpotInsert(p, name, views) ==
  /\ pc[p] = "idle"
  /\ Conflicts(p, "RESERVED") = {}
  /\ call' = [call EXCEPT ![p] = [op |-> "make_spot", name |-> name]]
  /\ IF \E s \in spots : s.name = name
       THEN Rollback(p, NoWrites, IntegrityError)
       ELSE \E cspot \in { c \in views : c.name = name } :
            \E spot_id \in Ids, ids \in [1..Len(cspot.slots) -> Ids] :
              LET n == Len(cspot.slots)
                  row == [name |-> cspot.name, id |-> spot_id,
                          note |-> cspot.note]
                  rows(k) == { make_slot(cspot.slots[i], spot_id, ids[i]) :
                                 i \in 1..k }
                  k == FirstFailure(cspot, ids)
              IN IF \E s \in spots : s.id = spot_id
                   THEN Rollback(p, NoWrites, IntegrityError)
                 ELSE IF k # 0
                   THEN Rollback(p, [NoWrites EXCEPT !.spots = {row},
                                                     !.slots = rows(k - 1)],
                                 IntegrityError)
                 ELSE /\ lock' = [lock EXCEPT ![p] = "RESERVED"]
                      /\ wset' = [wset EXCEPT ![p].spots = {row},
                                              ![p].slots = rows(n)]
                      /\ pc' = [pc EXCEPT ![p] = "make_spot_commit"]
                      /\ ret' = [ret EXCEPT ![p] = [kind |-> "pending"]]
                      /\ loc' = [loc EXCEPT ![p].cspot = cspot]
                      /\ UNCHANGED <<spots, slots, tickets, redeemed>>
  /\ UNCHANGED clock

\* make_spot returns None.
MakeSpotCommit(p) ==
  /\ pc[p] = "make_spot_commit"
  /\ Conflicts(p, "EXCLUSIVE") = {}
  /\ Commit(p, [kind |-> "none"])
  /\ UNCHANGED <<clock, call, redeemed>>

\* ------------------------------------------------------------ specifications
\* Serialized access: one thread serves every request.
Next ==
  \/ Tick
  \/ \E name \in Names, note \in Notes : ReserveRead(1, name, note)
  \/ ReserveWrite(1)
  \/ ReserveCommit(1)
  \/ \E spot_id \in Ids, ticket_id \in Ids : RedeemSelect(1, spot_id, ticket_id)
  \/ RedeemSave(1)
  \/ RedeemCommit(1)
  \/ \E name \in Names : MakeSpotInsert(1, name, CSpots)
  \/ MakeSpotCommit(1)

Spec == Init /\ [][Next]_vars

\* Concurrent access: NumThreads threads serve requests at the same time.
\* The spot views offered to make_spot carry one slot of capacity 1.
ConcCSpots ==
  { c \in CSpots : Len(c.slots) = 1 /\ c.slots[1].capacity = 1 }

NextConc ==
  \/ Tick
  \/ \E p \in Threads, name \in Names : ReserveRead(p, name, NoNote)
  \/ \E p \in Threads : ReserveWrite(p)
  \/ \E p \in Threads : ReserveCommit(p)
  \/ \E p \in Threads, spot_id \in Ids, ticket_id \in Ids :
       RedeemSelect(p, spot_id, ticket_id)
  \/ \E p \in Threads : RedeemSave(p)
  \/ \E p \in Threads : RedeemCommit(p)
  \/ \E p \in Threads, name \in Names : MakeSpotInsert(p, name, ConcCSpots)
  \/ \E p \in Threads : MakeSpotCommit(p)

SpecConc == Init /\ [][NextConc]_vars

\* ------------------------------------------------------------------ claims
\* Thread p receives a request in this step (it was idle and its call record,
\* position or result changes).
Called(p) ==
  /\ pc[p] = "idle"
  /\ \/ pc'[p] # "idle"
     \/ call'[p] # call[p]
     \/ ret'[p] # ret[p]

\* Thread p leaves reserve_ticket through its COMMIT in this step.
ReserveCommits(p) == pc[p] = "reserve_commit" /\ pc'[p] = "idle"

\* Thread p leaves redeem_ticket through its COMMIT in this step.
RedeemCommits(p) == pc[p] = "redeem_commit" /\ pc'[p] = "idle"

TicketsOf(s) == { t \in tickets : t.slot_id = s.id }

\* C1: in every reachable state every slot has reservations <= capacity.
C1_ReservationsWithinCapacity ==
  \A s \in slots : s.reservations <= s.capacity

\* C2: a slot never holds more than capacity + 1 reservations or tickets and
\* is never listed by get_available once it holds capacity + 1; a reservation
\* request on a spot with a future slot whose reservations equal its capacity
\* picks a slot, and a committed reservation raises the counter of the slot it
\* read by exactly one.
C2_Inv ==
  \A s \in slots :
    /\ s.reservations <= s.capacity + 1
    /\ Cardinality(TicketsOf(s)) <= s.capacity + 1
    /\ s.reservations = s.capacity + 1 =>
         \A now \in 0..MaxTime : \A f \in get_available(s.spot_id, now) :
           \A i \in 1..Len(f) : f[i] # s

C2_Step ==
  \A p \in Threads :
    /\ ( /\ Called(p)
         /\ call'[p].op = "reserve_ticket"
         /\ \E sp \in spots, s \in slots :
              /\ sp.name = call'[p].spot_name
              /\ s.spot_id = sp.id
              /\ s.start >= clock
              /\ s.reservations = s.capacity )
       => pc'[p] = "create_ticket"
    /\ ReserveCommits(p) =>
         /\ ret'[p].kind = "ticket"
         /\ loc[p].row \in slots
         /\ slots' = (slots \ {loc[p].row})
               \cup {[loc[p].row EXCEPT !.reservations = @ + 1]}

C3_Step_Original ==
  \A p \in Threads :
    ( /\ pc[p] = "create_ticket"
      /\ loc[p].row.reservations = 0
      /\ loc[p].row.capacity + 1 >= NumThreads
      /\ \A q \in Threads :
           pc[q] # "idle" => /\ call[q].op = "reserve_ticket"
                             /\ call[q].spot_name = call[p].spot_name
      /\ pc'[p] = "idle" )
    => ret'[p].err = IntegrityError

C3_EveryCallReturnsTicket == [][C3_Step_Original]_vars

\* C3 amended: under concurrent reserve_ticket calls every call that commits
\* returns a ticket whose row is the one new ticket row and raises the
\* counter of its slot by one; every other call that had picked a slot ends
\* with "database is locked" or an IntegrityError and changes no row; ticket
\* ids are pairwise distinct and the serial numbers of a slot's tickets are
\* exactly 0 .. reservations - 1.
C3_Inv ==
  /\ \A t, u \in tickets : t.ticket_id = u.ticket_id => t = u
  /\ \A s \in slots :
       /\ { t.serial_number : t \in TicketsOf(s) } = 0..(s.reservations - 1)
       /\ Cardinality(TicketsOf(s)) = s.reservations

C3_Step ==
  \A p \in Threads :
    (pc[p] \in {"create_ticket", "reserve_commit"} /\ pc'[p] = "idle") =>
      \/ /\ ret'[p].kind = "ticket"
         /\ \E t \in tickets' :
              /\ tickets' \ tickets = {t}
              /\ t.ticket_id = ret'[p].cticket.ticket_id
              /\ \E s \in slots :
                   /\ s.id = t.slot_id
                   /\ slots' = (slots \ {s})
                        \cup {[s EXCEPT !.reservations = @ + 1]}
      \/ /\ ret'[p].kind = "raise"
         /\ ret'[p].err \in {DatabaseLocked, IntegrityError}
         /\ UNCHANGED <<spots, slots, tickets>>

C3_CommittedCallsSerial == []C3_Inv /\ [][C3_Step]_vars

\* C3 witness: two calls on the same spot ran together; one returned the
\* ticket with serial number 0 and the other was refused.
C3_Witness ==
  \E p, q \in Threads :
    /\ p # q
    /\ call[p].op = "reserve_ticket" /\ call[q].op = "reserve_ticket"
    /\ call[p].spot_name = call[q].spot_name
    /\ ret[p].kind = "ticket"
    /\ ret[q].kind = "raise" /\ ret[q].err = DatabaseLocked
    /\ \E t \in tickets : /\ t.ticket_id = ret[p].cticket.ticket_id
                          /\ t.serial_number = 0
    /\ \A t \in tickets : t.serial_number = 0
    /\ Cardinality(spots) = 1

\* C4: under every interleaving of concurrent reserve_ticket calls, the slot
\* row a call has read is still the committed row for as long as the call is
\* open, no two tickets of a slot carry the same serial number, every
\* increment is kept, and a slot has at most capacity + 1 tickets.
C4_NoLostUpdate ==
  /\ \A p \in Threads :
       pc[p] \in {"create_ticket", "reserve_commit"} => loc[p].row \in slots
  /\ \A s \in slots :
       /\ \A t, u \in TicketsOf(s) : t.serial_number = u.serial_number => t = u
       /\ Cardinality(TicketsOf(s)) = s.reservations
       /\ Cardinality(TicketsOf(s)) <= s.capacity + 1

\* C4 witness: two calls have read the same counter of the same slot; one of
\* them has inserted its ticket and waits to commit.
C4_Witness ==
  \E p, q \in Threads :
    /\ p # q
    /\ pc[p] = "reserve_commit"
    /\ pc[q] = "create_ticket"
    /\ loc[p].row = loc[q].row

\* The count a redeem_ticket call of thread p has returned or, once its row
\* is saved, is about to return.
Counts(p) ==
  IF pc[p] = "redeem_commit" THEN {loc[p].i}
  ELSE IF pc[p] = "idle" /\ call[p].op = "redeem_ticket"
          /\ ret[p].kind = "count" THEN {ret[p].n}
  ELSE {}

\* C5: two redeem_ticket calls for the same ticket never return the same
\* count, and the stored presentments exceed every count returned.
C5_DistinctCounts ==
  \A p, q \in Threads :
    ( /\ p # q
      /\ call[p].op = "redeem_ticket" /\ call[q].op = "redeem_ticket"
      /\ call[p].ticket_id = call[q].ticket_id )
    => /\ Counts(p) \cap Counts(q) = {}
       /\ \A t \in tickets : t.ticket_id = call[p].ticket_id =>
            \A n \in Counts(p) \cup Counts(q) :
              pc[p] = "idle" /\ pc[q] = "idle" => t.presentments > n

\* C5 witness: two threads redeemed the same fresh ticket; one returned 0, the
\* other 1 and presentments ended at 2.
C5_Witness ==
  \E p, q \in Threads :
    /\ p # q
    /\ call[p].op = "redeem_ticket" /\ call[q].op = "redeem_ticket"
    /\ call[p].ticket_id = call[q].ticket_id
    /\ Counts(p) = {0} /\ Counts(q) = {1}
    /\ \E t \in tickets : /\ t.ticket_id = call[p].ticket_id
                          /\ t.presentments = 2

\* C6: the counts returned by the redemptions of a ticket are 0, 1, 2, ... in
\* that order, whatever else is executed in between; each redemption returns
\* the stored presentments and raises them by exactly one.
C6_Inv ==
  \A id \in Ids :
    /\ \A i \in 1..Len(redeemed[id]) : redeemed[id][i] = i - 1
    /\ \A t \in tickets : t.ticket_id = id => t.presentments = Len(redeemed[id])

C6_Step ==
  \A p \in Threads :
    RedeemCommits(p) =>
      \E t \in tickets :
        /\ t.ticket_id = call[p].ticket_id
        /\ t.spot_id = call[p].spot_id
        /\ ret'[p] = [kind |-> "count", n |-> t.presentments]
        /\ tickets' = (tickets \ {t})
              \cup {[t EXCEPT !.presentments = @ + 1]}

C6_SequentialCounts == []C6_Inv /\ [][C6_Step]_vars

\* C6 witness: a ticket was redeemed twice, returning 0 then 1, while another
\* ticket exists and was redeemed too.
C6_Witness ==
  \E id, other \in Ids :
    /\ id # other
    /\ redeemed[id] = <<0, 1>>
    /\ Len(redeemed[other]) >= 1

\* The slots of spot sp a reservation at time now may use.
Open(sp, now) ==
  { r \in slots : r.spot_id = sp.id /\ r.start >= now
                  /\ r.reservations <= r.capacity }

\* C7: the slot a reserve_ticket call picks is a slot of the named spot with
\* start >= now and reservations <= capacity, no such slot starts strictly
\* earlier, and the ticket returned is issued against the slot picked.
C7_Step ==
  \A p \in Threads :
    /\ (Called(p) /\ pc'[p] = "create_ticket") =>
         \E sp \in spots :
           /\ sp.name = call'[p].spot_name
           /\ loc'[p].row \in Open(sp, clock)
           /\ \A r \in Open(sp, clock) : r.start >= loc'[p].row.start
    /\ ReserveCommits(p) =>
         \E t \in tickets' \ tickets :
           /\ t.slot_id = loc[p].row.id
           /\ t.ticket_id = ret'[p].cticket.ticket_id

C7_EarliestSlot == [][C7_Step]_vars

\* C7 witness: a ticket was returned for a slot while a later-starting slot of
\* the same spot was open as well.
C7_Witness ==
  /\ ret[1].kind = "ticket"
  /\ \E t \in tickets, s \in slots, r \in slots :
       /\ t.ticket_id = ret[1].cticket.ticket_id
       /\ s.id = t.slot_id
       /\ r.spot_id = s.spot_id
       /\ r.start > s.start
       /\ r.reservations <= r.capacity

\* C8: reserve_ticket on an existing spot without a slot with start >= now and
\* reservations <= capacity returns None and changes no row.
C8_Step ==
  \A p \in Threads :
    ( /\ Called(p)
      /\ call'[p].op = "reserve_ticket"
      /\ \E sp \in spots : sp.name = call'[p].spot_name /\ Open(sp, clock) = {} )
    => /\ pc'[p] = "idle"
       /\ ret'[p] = [kind |-> "none"]
       /\ UNCHANGED <<spots, slots, tickets>>

C8_NoAvailability == [][C8_Step]_vars

\* C8 witness: reserve_ticket returned None for a spot whose slots are all
\* exhausted, one of them still to start.
C8_Witness ==
  /\ call[1].op = "reserve_ticket"
  /\ ret[1].kind = "none"
  /\ \E sp \in spots :
       /\ sp.name = call[1].spot_name
       /\ \E s \in slots : s.spot_id = sp.id /\ s.start >= clock
       /\ \A s \in slots : s.spot_id = sp.id => s.reservations > s.capacity

\* Two rows of one name, as a corrupted PSpot table would hold.
DuplicateRows(name) ==
  { [name |-> name, id |-> i, note |-> NoNote] : i \in {1, 2} }

C9_Step ==
  \A p \in Threads :
    ( /\ Called(p)
      /\ call'[p].op = "reserve_ticket"
      /\ \A sp \in spots : sp.name # call'[p].spot_name )
    => /\ pc'[p] = "idle"
       /\ ret'[p] = [kind |-> "raise",
                     err |-> [exc |-> "Exception",
                              msg |-> "spot name associated with IDs",
                              name |-> call'[p].spot_name, count |-> 0]]
       /\ LET dup == get_spot_id(call'[p].spot_name,
                                 DuplicateRows(call'[p].spot_name))
          IN /\ dup.kind = "raise"
             /\ dup.err.exc = ret'[p].err.exc
             /\ dup.err.msg = ret'[p].err.msg
             /\ dup.err.count # ret'[p].err.count
       /\ UNCHANGED <<spots, slots, tickets>>

C10_Step ==
  \A p \in Threads :
    ( /\ Called(p)
      /\ call'[p].op = "redeem_ticket"
      /\ \A t \in tickets : ~ ( /\ t.ticket_id = call'[p].ticket_id
                                /\ t.spot_id = call'[p].spot_id ) )
    => /\ pc'[p] = "idle"
       /\ ret'[p] = [kind |-> "raise",
                     err |-> [exc |-> "Exception",
                              msg |-> "No ticket issuance found",
                              ticket_id |-> call'[p].ticket_id]]
       /\ UNCHANGED <<spots, slots, tickets, redeemed>>

C10_UnknownTicketRaises == [][C10_Step]_vars

\* C10 witness: redeem_ticket raised for a ticket_id that exists under
\* another spot_id.
C10_Witness ==
  /\ call[1].op = "redeem_ticket"
  /\ ret[1].kind = "raise"
  /\ \E t \in tickets : /\ t.ticket_id = call[1].ticket_id
                        /\ t.spot_id # call[1].spot_id

\* Thread p leaves make_spot through its COMMIT in this step.
MakeSpotCommits(p) == pc[p] = "make_spot_commit" /\ pc'[p] = "idle"

\* C11: a make_spot that succeeds for a spot view with N slot views adds
\* exactly one spot row, carrying the name and note of the view, and exactly
\* N slot rows, the i-th with reservations 0, the id of the new spot and the
\* start, end, capacity and note of the i-th slot view.
C11_Step ==
  \A p \in Threads :
    MakeSpotCommits(p) =>
      LET cspot == loc[p].cspot
          N == Len(cspot.slots)
          new == slots' \ slots
      IN /\ ret'[p] = [kind |-> "none"]
         /\ Cardinality(spots' \ spots) = 1
         /\ Cardinality(new) = N
         /\ \E sp \in spots' \ spots :
              /\ sp.name = cspot.name
              /\ sp.note = cspot.note
              /\ \E f \in [1..N -> new] :
                   /\ \A i, j \in 1..N : i # j => f[i] # f[j]
                   /\ \A i \in 1..N :
                        /\ f[i].reservations = 0
                        /\ f[i].spot_id = sp.id
                        /\ f[i].start = cspot.slots[i].start
                        /\ f[i].end = cspot.slots[i].end
                        /\ f[i].capacity = cspot.slots[i].capacity
                        /\ f[i].note = cspot.slots[i].note

C11_SpotAndSlotsAdded == [][C11_Step]_vars

\* C11 witness: make_spot succeeded for a view with two equal slot views whose
\* end is 0; the spot has two slot rows that differ in their id only.
C11_Witness ==
  /\ call[1].op = "make_spot"
  /\ ret[1].kind = "none"
  /\ \E sp \in spots, r \in slots, q \in slots :
       /\ sp.name = call[1].name
       /\ r.spot_id = sp.id
       /\ r.id # q.id
       /\ q = [r EXCEPT !.id = q.id]
       /\ r.end = 0
       /\ r.reservations = 0

\* C12: make_spot with a name that is already stored raises the
\* IntegrityError of the uniqueness constraint; a make_spot that ends at one
\* of its INSERTs, be it the first or a later one, raises and leaves every
\* table as it was; rows of a call that has not committed are not in the
\* tables.
C12_Step ==
  \A p \in Threads :
    (Called(p) /\ call'[p].op = "make_spot") =>
      /\ (\E s \in spots : s.name = call'[p].name) =>
           /\ pc'[p] = "idle"
           /\ ret'[p] = [kind |-> "raise", err |-> [exc |-> "IntegrityError"]]
      /\ pc'[p] = "idle" => ret'[p].kind = "raise"
      /\ UNCHANGED <<spots, slots, tickets>>

C12_MakeSpotAllOrNothing == [][C12_Step]_vars

\* C12 witness: make_spot was refused for the name of a stored spot one of
\* whose slots has reservations.
C12_Witness ==
  /\ call[1].op = "make_spot"
  /\ ret[1].kind = "raise"
  /\ \E s \in spots, r \in slots :
       /\ s.name = call[1].name
       /\ r.spot_id = s.id
       /\ r.reservations > 0

\* A make_spot for a free name and a free spot id failed at one of its slot
\* INSERTs, after the spot row was inserted: the tables are still empty.
C12_PartWayFailure ==
  /\ call[1].op = "make_spot"
  /\ ret[1].kind = "raise"
  /\ ret[1].err = IntegrityError
  /\ spots = {}
  /\ slots = {}

\* C13: ticket ids are unique over the stored tickets, and so are the pairs
\* (spot_id, ticket_id); a reserve_ticket call goes past its INSERT only with
\* a ticket id that no stored ticket carries, and otherwise ends there with
\* the IntegrityError of the primary key, every ticket row and every
\* reservations counter left as it was; a committed call keeps every ticket
\* row that was stored before.
C13_Inv ==
  \A t, u \in tickets :
    /\ t.ticket_id = u.ticket_id => t = u
    /\ (t.spot_id = u.spot_id /\ t.ticket_id = u.ticket_id) => t = u

C13_Step ==
  \A p \in Threads :
    /\ (pc[p] = "create_ticket" /\ pc'[p] # pc[p]) =>
         /\ UNCHANGED <<spots, slots, tickets>>
         /\ \/ /\ pc'[p] = "reserve_commit"
               /\ \A t \in tickets : t.ticket_id # loc'[p].ticket_id
            \/ /\ pc'[p] = "idle"
               /\ ret'[p] = [kind |-> "raise",
                             err |-> [exc |-> "IntegrityError"]]
         /\ (\A id \in Ids : \E t \in tickets : t.ticket_id = id) =>
              pc'[p] = "idle"
    /\ ReserveCommits(p) => tickets \subseteq tickets'

C13_TicketIdCollisionFails == []C13_Inv /\ [][C13_Step]_vars

\* C13 witness: a reserve_ticket call on a spot with an open slot ended with
\* the IntegrityError while tickets are stored; the counter of the open slot
\* still equals the number of its tickets.
C13_Witness ==
  /\ call[1].op = "reserve_ticket"
  /\ ret[1].kind = "raise"
  /\ ret[1].err = IntegrityError
  /\ tickets # {}
  /\ \E sp \in spots :
       /\ sp.name = call[1].spot_name
       /\ \E s \in Open(sp, clock) : Cardinality(TicketsOf(s)) = s.reservations

\* The calls of threads p and q touch different rows: reservations on two
\* different spots, redemptions of two different tickets, or a reservation
\* and a redemption (the ticket redeemed is stored, the ticket reserved is
\* not yet).
DifferentRows(p, q) ==
  \/ /\ call[p].op = "reserve_ticket" /\ call[q].op = "reserve_ticket"
     /\ call[p].spot_name # call[q].spot_name
  \/ /\ call[p].op = "redeem_ticket" /\ call[q].op = "redeem_ticket"
     /\ call[p].ticket_id # call[q].ticket_id
  \/ call[p].op = "reserve_ticket" /\ call[q].op = "redeem_ticket"
  \/ call[p].op = "redeem_ticket" /\ call[q].op = "reserve_ticket"

\* C14: a reservation or redemption that is about to write, while every
\* other call in progress touches different rows, is not made to fail by
\* them: it does not end with "database is locked".
C14_Step ==
  \A p \in Threads :
    ( /\ pc[p] \in {"create_ticket", "save_ticket"}
      /\ \A q \in Threads \ {p} : pc[q] # "idle" => DifferentRows(p, q)
      /\ pc'[p] = "idle" )
    => ret'[p].err # DatabaseLocked

C14_DifferentRowsIndependent == [][C14_Step]_vars

\* C15: under serialized access the ticket a reserve_ticket call commits
\* carries as serial number the reservations value of its slot before the
\* increment, and in every reachable state the serial numbers of the tickets
\* of a slot are pairwise distinct and are exactly 0 .. reservations - 1.
C15_Inv ==
  \A s \in slots :
    /\ \A t, u \in TicketsOf(s) : t.serial_number = u.serial_number => t = u
    /\ { t.serial_number : t \in TicketsOf(s) } = 0..(s.reservations - 1)

C15_Step ==
  \A p \in Threads :
    ReserveCommits(p) =>
      \E t \in tickets' \ tickets, s \in slots :
        /\ s.id = t.slot_id
        /\ t.serial_number = s.reservations
        /\ \E r \in slots' : r.id = s.id /\ r.reservations = t.serial_number + 1

C15_SerialNumbers == []C15_Inv /\ [][C15_Step]_vars

\* C15 witness: a slot holds two reservations and its two tickets carry the
\* serial numbers 0 and 1.
C15_Witness ==
  \E s \in slots :
    /\ s.reservations = 2
    /\ { t.serial_number : t \in TicketsOf(s) } = {0, 1}
    /\ Cardinality(TicketsOf(s)) = 2

\* C16: the ticket view returned by reserve_ticket carries the stored start,
\* end, capacity and note of the slot of its ticket, the requested spot name,
\* the id of that spot, the stored ticket id and the note of the caller.
C16_TicketViewCarriesSlot ==
  \A p \in Threads :
    (pc[p] = "idle" /\ call[p].op = "reserve_ticket" /\ ret[p].kind = "ticket")
    => \E t \in tickets, s \in slots, sp \in spots :
         /\ t.ticket_id = ret[p].cticket.ticket_id
         /\ s.id = t.slot_id
         /\ sp.name = call[p].spot_name
         /\ ret[p].cticket.spot_name = call[p].spot_name
         /\ ret[p].cticket.spot_id = sp.id
         /\ ret[p].cticket.note = call[p].note
         /\ ret[p].cticket.slot.start = s.start
         /\ ret[p].cticket.slot.end = s.end
         /\ ret[p].cticket.slot.capacity = s.capacity
         /\ ret[p].cticket.slot.note = s.note

\* The same without the capacity: the view carries the stored start, end and
\* note of the slot.
C16_TicketViewCarriesEnd ==
  \A p \in Threads :
    (pc[p] = "idle" /\ call[p].op = "reserve_ticket" /\ ret[p].kind = "ticket")
    => \E t \in tickets, s \in slots :
         /\ t.ticket_id = ret[p].cticket.ticket_id
         /\ s.id = t.slot_id
         /\ ret[p].cticket.slot.start = s.start
         /\ ret[p].cticket.slot.end = s.end
         /\ ret[p].cticket.slot.note = s.note

\* Thread p is inside reserve_ticket with a slot picked.
Reserving(p) == pc[p] \in {"create_ticket", "reserve_commit"}

\* C17: the slot a reserve_ticket call picks has start >= now; the call keeps
\* that slot to its end and changes the row of no other slot, so a slot that
\* started before now is neither chosen nor changed; a slot of the spot with
\* start = now and reservations <= capacity makes the call pick a slot that
\* starts now.
C17_Step ==
  \A p \in Threads :
    /\ (Called(p) /\ call'[p].op = "reserve_ticket") =>
         /\ UNCHANGED slots
         /\ pc'[p] = "create_ticket" => loc'[p].row.start >= clock
         /\ (\E sp \in spots, s \in slots :
               /\ sp.name = call'[p].spot_name
               /\ s.spot_id = sp.id
               /\ s.start = clock
               /\ s.reservations <= s.capacity)
            => (pc'[p] = "create_ticket" /\ loc'[p].row.start = clock)
    /\ Reserving(p) =>
         /\ Reserving(p)' => loc'[p].row = loc[p].row
         /\ \A s \in slots : s.id # loc[p].row.id => s \in slots'
         /\ \A s \in slots' : s.id # loc[p].row.id => s \in slots

C17_PastSlotsUntouched == [][C17_Step]_vars

\* C17 witness: a ticket was issued against a slot that starts now while a
\* slot of the same spot that started before now still has room and no
\* reservation.
C17_Witness ==
  /\ call[1].op = "reserve_ticket"
  /\ ret[1].kind = "ticket"
  /\ \E t \in tickets, s \in slots, r \in slots :
       /\ t.ticket_id = ret[1].cticket.ticket_id
       /\ s.id = t.slot_id
       /\ s.start = clock
       /\ r.spot_id = s.spot_id
       /\ r.start < clock
       /\ r.reservations = 0
       /\ r.reservations <= r.capacity

\* The tickets the slots in S can still issue: the sum of
\* capacity + 1 - reservations.
RECURSIVE Room(_)
Room(S) ==
  IF S = {} THEN 0
  ELSE LET s == CHOOSE x \in S : TRUE
       IN (s.capacity + 1 - s.reservations) + Room(S \ {s})

\* The slots of spot spot_id in table that start at now or later.
Future(table, spot_id, now) ==
  { s \in table : s.spot_id = spot_id /\ s.start >= now }

\* C18: a reserve_ticket call picks slot B only if every slot A of the spot
\* with now <= A.start < B.start has reservations > capacity, and its ticket
\* is issued against B.  No slot can issue a negative number of tickets.  For
\* every fixed now, a committed reservation lowers the number of tickets the
\* future slots of its spot can still issue by exactly one (and leaves it
\* alone for a now after the start of its slot), no other step changes that
\* number for a stored spot, and a call returns the empty result exactly when
\* the number is 0: with now fixed, the calls on a spot issue exactly that
\* many tickets and then return the empty result.
C18_Inv ==
  \A s \in slots : s.capacity + 1 - s.reservations >= 0

C18_Step ==
  \A p \in Threads :
    /\ (Called(p) /\ pc'[p] = "create_ticket") =>
         \A A \in slots :
           ( /\ A.spot_id = loc'[p].row.spot_id
             /\ clock <= A.start
             /\ A.start < loc'[p].row.start )
           => A.reservations > A.capacity
    /\ (Called(p) /\ call'[p].op = "reserve_ticket") =>
         \A sp \in spots :
           sp.name = call'[p].spot_name =>
             /\ ret'[p] = [kind |-> "none"] <=>
                  Room(Future(slots, sp.id, clock)) = 0
             /\ pc'[p] = "create_ticket" <=>
                  Room(Future(slots, sp.id, clock)) > 0
    /\ ReserveCommits(p) =>
         \E t \in tickets' \ tickets :
           /\ tickets' = tickets \cup {t}
           /\ t.slot_id = loc[p].row.id

C18_Count ==
  /\ \A p \in Threads : ReserveCommits(p) => slots' # slots
  /\ slots' # slots =>
       \A sp \in spots, now \in 1..MaxTime :
         Room(Future(slots', sp.id, now)) =
           IF \E p \in Threads : /\ ReserveCommits(p)
                                 /\ loc[p].row.spot_id = sp.id
                                 /\ loc[p].row.start >= now
             THEN Room(Future(slots, sp.id, now)) - 1
             ELSE Room(Future(slots, sp.id, now))

C18_FillInStartOrder == []C18_Inv /\ [][C18_Step /\ C18_Count]_vars

\* C18 witness: the earlier slot A of a spot is filled beyond its capacity,
\* the ticket returned last was issued against the later slot B, which has
\* no other ticket, and both slots start at now or later.
C18_Witness ==
  /\ call[1].op = "reserve_ticket"
  /\ ret[1].kind = "ticket"
  /\ \E t \in tickets, A \in slots, B \in slots :
       /\ t.ticket_id = ret[1].cticket.ticket_id
       /\ B.id = t.slot_id
       /\ A.spot_id = B.spot_id
       /\ clock <= A.start
       /\ A.start < B.start
       /\ A.reservations = A.capacity + 1
       /\ B.reservations = 1

\* The empty result was returned for a spot with two slots after exactly as
\* many tickets as its future slots could issue, a slot in the past having
\* room left.
C18_EmptyAfterExactCount ==
  /\ call[1].op = "reserve_ticket"
  /\ ret[1] = [kind |-> "none"]
  /\ \E sp \in spots, A \in slots, B \in slots :
       /\ sp.name = call[1].spot_name
       /\ A.spot_id = sp.id /\ B.spot_id = sp.id
       /\ A.start < clock /\ A.reservations = 0
       /\ B.start >= clock
       /\ Cardinality(TicketsOf(B)) = B.capacity + 1
       /\ B.capacity = 1

\* C19: in every committed state the number of stored tickets of a slot
\* equals its reservations counter and every stored ticket names a stored
\* slot of the spot the ticket names; a step adds a ticket row exactly when it
\* raises a counter, it then adds one ticket and raises the counter of that
\* ticket's slot by one, and a reserve_ticket call that ends with an exception
\* changes neither.
C19_Inv ==
  /\ \A s \in slots :
       Cardinality({ t \in tickets : t.slot_id = s.id }) = s.reservations
  /\ \A t \in tickets :
       \E s \in slots : s.id = t.slot_id /\ s.spot_id = t.spot_id

C19_Step ==
  /\ (\E t \in tickets' : \A u \in tickets : u.ticket_id # t.ticket_id)
       <=> (\E s \in slots, r \in slots' :
              r.id = s.id /\ r.reservations # s.reservations)
  /\ \A t \in tickets' :
       (\A u \in tickets : u.ticket_id # t.ticket_id) =>
         /\ Cardinality(tickets') = Cardinality(tickets) + 1
         /\ \E s \in slots :
              /\ s.id = t.slot_id
              /\ slots' = (slots \ {s}) \cup {[s EXCEPT !.reservations = @ + 1]}
  /\ \A p \in Threads :
       (Reserving(p) /\ pc'[p] = "idle" /\ ret'[p].kind = "raise") =>
         UNCHANGED <<slots, tickets>>

C19_TicketAndCounterTogether == []C19_Inv /\ [][C19_Step]_vars

\* C19 witness: a slot holds two committed reservations with their two
\* tickets, and the reserve_ticket call of a thread was refused after it had
\* picked a slot.
C19_Witness ==
  /\ \E s \in slots :
       s.reservations = 2 /\ Cardinality({ t \in tickets : t.slot_id = s.id }) = 2
  /\ \E p \in Threads :
       /\ call[p].op = "reserve_ticket"
       /\ ret[p].kind = "raise"
       /\ ret[p].err = DatabaseLocked

\* C20: a committed reserve_ticket adds exactly one ticket row, with
\* presentments 0, raises the reservations of exactly one slot by one and
\* changes nothing else; a committed redeem_ticket raises the presentments of
\* exactly one ticket by one and changes nothing else; a committed make_spot
\* changes no stored row and no ticket; a step that is not a COMMIT changes no
\* table; no row is deleted, a stored slot or ticket changes in its counter
\* only, and reservations and presentments never decrease.
C20_Step ==
  /\ \A p \in Threads :
       /\ ReserveCommits(p) =>
            /\ spots' = spots
            /\ \E t \in tickets' \ tickets :
                 /\ tickets' = tickets \cup {t}
                 /\ t.presentments = 0
            /\ \E s \in slots :
                 slots' = (slots \ {s}) \cup {[s EXCEPT !.reservations = @ + 1]}
       /\ RedeemCommits(p) =>
            /\ spots' = spots
            /\ slots' = slots
            /\ \E t \in tickets :
                 tickets' = (tickets \ {t})
                   \cup {[t EXCEPT !.presentments = @ + 1]}
       /\ MakeSpotCommits(p) =>
            /\ spots \subseteq spots'
            /\ slots \subseteq slots'
            /\ tickets' = tickets
  /\ (\A p \in Threads :
        ~ (ReserveCommits(p) \/ RedeemCommits(p) \/ MakeSpotCommits(p)))
     => UNCHANGED <<spots, slots, tickets>>
  /\ spots \subseteq spots'
  /\ \A s \in slots :
       \E r \in slots' : /\ r = [s EXCEPT !.reservations = r.reservations]
                         /\ r.reservations >= s.reservations
  /\ \A t \in tickets :
       \E u \in tickets' : /\ u = [t EXCEPT !.presentments = u.presentments]
                           /\ u.presentments >= t.presentments

C20_OnlyOwnTarget == [][C20_Step]_vars

\* C20 witness: two spots and two tickets are stored; one ticket was redeemed
\* once by the call that returned last, the other ticket was never redeemed.
C20_Witness ==
  /\ Cardinality(spots) = 2
  /\ \E p \in Threads, t \in tickets, u \in tickets :
       /\ call[p].op = "redeem_ticket"
       /\ ret[p] = [kind |-> "count", n |-> 0]
       /\ t.ticket_id = call[p].ticket_id
       /\ t.presentments = 1
       /\ u.ticket_id # t.ticket_id
       /\ u.presentments = 0

====
